---- MODULE Spec2Model ----
(***************************************************************************)
(* fungen: a generator of list types and their Map/Filter/... methods.     *)
(*                                                                         *)
(* Strings are sequences of one-character strings, so that strings.Split,  *)
(* strings.Title and string concatenation are computed character by        *)
(* character.  A piece of generated text is a record holding the values    *)
(* substituted into the template it was rendered from.                     *)
(***************************************************************************)
EXTENDS Integers, Sequences, FiniteSets, TLC

VARIABLES
    pc,          \* position of main
    types,       \* -types flag
    methods,     \* -methods flag
    testrun,     \* -test flag
    methodsMap,  \* main's methodsMap
    typeMap,     \* main's typeMap
    pending,     \* keys of typeMap the range loop of main has not visited yet
    src,         \* main's src, a sequence of rendered fragments
    exitCode,    \* -1 while running, else the process exit status
    diag,        \* what was reported on exit: <<kind, text>>
    out,         \* what reached the destination file or the display
    \* one call of each of the generated Take(n) and Drop(n)
    tdL,         \* the receiver l
    tdN,         \* the argument n
    tdTake,      \* the outcome of l.Take(n)
    tdDrop,      \* the outcome of l.Drop(n)
    \* one call of the generated PMap(f)
    pmL,         \* the receiver l
    pmF,         \* the argument f
    pmL2,        \* l2
    pmWg,        \* the counter of wg
    pmI,         \* how many iterations of the range loop have run
    pmPc,        \* position of the caller
    pmTasks,     \* the goroutines, by the iteration that starts them
    pmWrites,    \* the writes to l2 so far: <<goroutine, index>>
    pmRet,       \* the list returned
    \* one call of the generated PFilter(f)
    pfL,         \* the receiver l
    pfF,         \* the argument f, as the set of values it holds for
    pfL2,        \* l2
    pfMutex,     \* the goroutine holding mutex, 0 when unlocked
    pfWg,        \* the counter of wg
    pfI,         \* how many iterations of the range loop have run
    pfPc,        \* position of the caller
    pfTasks,     \* the goroutines, by the iteration that starts them
    pfRet        \* the list returned

genVars ==
    <<pc, types, methods, testrun, methodsMap, typeMap, pending, src, exitCode, diag, out>>

tdVars == <<tdL, tdN, tdTake, tdDrop>>

pmVars == <<pmL, pmF, pmL2, pmWg, pmI, pmPc, pmTasks, pmWrites, pmRet>>

pfVars == <<pfL, pfF, pfL2, pfMutex, pfWg, pfI, pfPc, pfTasks, pfRet>>

libVars == <<tdVars, pmVars, pfVars>>

vars == <<genVars, libVars>>

----------------------------------------------------------------------------
(* Bounds of the model *)

\* longest -types string
MaxTypesLen == 4

\* most comma-separated tokens in a -methods string
MaxMethodTokens == 2

----------------------------------------------------------------------------
(* Strings *)

Range(s) == {s[i] : i \in 1..Len(s)}

RECURSIVE Flatten(_)
Flatten(ss) == IF Len(ss) = 0 THEN <<>> ELSE Head(ss) \o Flatten(Tail(ss))

RECURSIVE Join(_, _)
Join(ss, sep) ==
    IF Len(ss) = 0 THEN <<>>
    ELSE IF Len(ss) = 1 THEN ss[1]
    ELSE ss[1] \o sep \o Join(Tail(ss), sep)

\* strings.Split(s, sep) for a one-character separator
RECURSIVE Split(_, _)
Split(s, sep) ==
    LET at == {i \in 1..Len(s) : s[i] = sep}
    IN  IF at = {} THEN <<s>>
        ELSE LET i == CHOOSE j \in at : \A k \in at : j <= k
             IN  <<SubSeq(s, 1, i - 1)>> \o Split(SubSeq(s, i + 1, Len(s)), sep)

ToUpper(c) ==
    CASE c = "a" -> "A"
      [] c = "b" -> "B"
      [] OTHER   -> c

\* unicode letters, digits and the underscore do not separate words
IsSeparator(c) == c \in {",", ":", " "}

\* strings.Title(s): the first letter of every word in upper case
Title(s) ==
    [i \in 1..Len(s) |->
        IF i = 1 \/ IsSeparator(s[i - 1]) THEN ToUpper(s[i]) ELSE s[i]]

StringsUpTo(alphabet, n) == UNION {[1..k -> alphabet] : k \in 0..n}

ListSuffix == <<"L", "i", "s", "t">>

----------------------------------------------------------------------------
(* The registry of operations *)

NameMap         == <<"M", "a", "p">>
NamePMap        == <<"P", "M", "a", "p">>
NameFilter      == <<"F", "i", "l", "t", "e", "r">>
NamePFilter     == <<"P", "F", "i", "l", "t", "e", "r">>
NameReduce      == <<"R", "e", "d", "u", "c", "e">>
NameReduceRight == <<"R", "e", "d", "u", "c", "e", "R", "i", "g", "h", "t">>
NameTake        == <<"T", "a", "k", "e">>
NameTakeWhile   == <<"T", "a", "k", "e", "W", "h", "i", "l", "e">>
NameDrop        == <<"D", "r", "o", "p">>
NameDropWhile   == <<"D", "r", "o", "p", "W", "h", "i", "l", "e">>
NameEach        == <<"E", "a", "c", "h">>
NameEachI       == <<"E", "a", "c", "h", "I">>
NameAll         == <<"A", "l", "l">>
NameAny         == <<"A", "n", "y">>

\* a Generator; fields the literal leaves out hold Go's zero value, false
Generator(name, method, needSync, needMapToMap) ==
    [name |-> name, method |-> method, needSync |-> needSync,
     needMapToMap |-> needMapToMap]

generators == <<
    Generator(NameMap,         "getMapFunction",         FALSE, TRUE),
    Generator(NamePMap,        "getPMapFunction",        TRUE,  TRUE),
    Generator(NameFilter,      "getFilterFunction",      FALSE, FALSE),
    Generator(NamePFilter,     "getPFilterFunction",     TRUE,  FALSE),
    Generator(NameReduce,      "getReduceFunction",      FALSE, FALSE),
    Generator(NameReduceRight, "getReduceRightFunction", FALSE, FALSE),
    Generator(NameTake,        "getTakeFunction",        FALSE, FALSE),
    Generator(NameTakeWhile,   "getTakeWhileFunction",   FALSE, FALSE),
    Generator(NameDrop,        "getDropFunction",        FALSE, FALSE),
    Generator(NameDropWhile,   "getDropWhileFunction",   FALSE, FALSE),
    Generator(NameEach,        "getEachFunction",        FALSE, FALSE),
    Generator(NameEachI,       "getEachIFunction",       FALSE, FALSE),
    Generator(NameAll,         "getAllFunction",         FALSE, FALSE),
    Generator(NameAny,         "getAnyFunction",         FALSE, FALSE) >>

\* GeneratorList.Filter, itself rendered from the Filter template: the members
\* for which the function f returns true, in their original order
GeneratorListFilter(l, f) == SelectSeq(l, LAMBDA gen : f[gen])

----------------------------------------------------------------------------
(* Rendered fragments *)

Fragment(kind, op, name, recv, elem, target, ret) ==
    [kind |-> kind, op |-> op, name |-> name, recv |-> recv, elem |-> elem,
     target |-> target, ret |-> ret]

\* "package %[1]s"
PackageClause(name) == Fragment("package", <<>>, name, <<>>, <<>>, <<>>, <<>>)

\* `import "sync"`
ImportSyncDecl ==
    Fragment("import", <<>>, <<"s", "y", "n", "c">>, <<>>, <<>>, <<>>, <<>>)

\* "type %[2]s []%[1]s"
TypeDecl(typeName, listname) ==
    Fragment("type", <<>>, listname, <<>>, typeName, <<>>, <<>>)

\* "func (l recv) name(... elem ... target ...) ret", rendered from op's template
MethodDecl(op, name, recv, elem, target, ret) ==
    Fragment("method", op, name, recv, elem, target, ret)

BoolType == <<"b", "o", "o", "l">>

----------------------------------------------------------------------------
(* The templates *)

getMapFunction(listName, typeName, targetType, targetTypeName) ==
    LET targetListName ==
            IF targetTypeName = <<>> THEN listName ELSE targetType \o ListSuffix
    IN  MethodDecl(NameMap, NameMap \o Title(targetTypeName), listName, typeName,
                   targetType, targetListName)

getPMapFunction(listName, typeName, targetType, targetTypeName) ==
    LET targetListName ==
            IF targetTypeName = <<>> THEN listName ELSE targetType \o ListSuffix
    IN  MethodDecl(NamePMap, NamePMap \o Title(targetTypeName), listName, typeName,
                   targetType, targetListName)

getFilterFunction(listName, typeName, a3, a4) ==
    MethodDecl(NameFilter, NameFilter, listName, typeName, <<>>, listName)

getPFilterFunction(listName, typeName, a3, a4) ==
    MethodDecl(NamePFilter, NamePFilter, listName, typeName, <<>>, listName)

getEachFunction(listName, typeName, a3, a4) ==
    MethodDecl(NameEach, NameEach, listName, typeName, <<>>, listName)

getEachIFunction(listName, typeName, a3, a4) ==
    MethodDecl(NameEachI, NameEachI, listName, typeName, <<>>, listName)

getDropWhileFunction(listName, typeName, a3, a4) ==
    MethodDecl(NameDropWhile, NameDropWhile, listName, typeName, <<>>, listName)

getTakeWhileFunction(listName, typeName, a3, a4) ==
    MethodDecl(NameTakeWhile, NameTakeWhile, listName, typeName, <<>>, listName)

getTakeFunction(listName, typeName, a3, a4) ==
    MethodDecl(NameTake, NameTake, listName, typeName, <<>>, listName)

getDropFunction(listName, typeName, a3, a4) ==
    MethodDecl(NameDrop, NameDrop, listName, typeName, <<>>, listName)

getReduceFunction(listName, typename, a3, a4) ==
    MethodDecl(NameReduce, NameReduce, listName, typename, <<>>, typename)

getReduceRightFunction(listName, typename, a3, a4) ==
    MethodDecl(NameReduceRight, NameReduceRight, listName, typename, <<>>, typename)

getAllFunction(listName, typename, a3, a4) ==
    MethodDecl(NameAll, NameAll, listName, typename, <<>>, BoolType)

getAnyFunction(listName, typename, a3, a4) ==
    MethodDecl(NameAny, NameAny, listName, typename, <<>>, BoolType)

\* the call gen.method(a1, a2, a3, a4)
CallMethod(method, a1, a2, a3, a4) ==
    CASE method = "getMapFunction"         -> getMapFunction(a1, a2, a3, a4)
      [] method = "getPMapFunction"        -> getPMapFunction(a1, a2, a3, a4)
      [] method = "getFilterFunction"      -> getFilterFunction(a1, a2, a3, a4)
      [] method = "getPFilterFunction"     -> getPFilterFunction(a1, a2, a3, a4)
      [] method = "getReduceFunction"      -> getReduceFunction(a1, a2, a3, a4)
      [] method = "getReduceRightFunction" -> getReduceRightFunction(a1, a2, a3, a4)
      [] method = "getTakeFunction"        -> getTakeFunction(a1, a2, a3, a4)
      [] method = "getTakeWhileFunction"   -> getTakeWhileFunction(a1, a2, a3, a4)
      [] method = "getDropFunction"        -> getDropFunction(a1, a2, a3, a4)
      [] method = "getDropWhileFunction"   -> getDropWhileFunction(a1, a2, a3, a4)
      [] method = "getEachFunction"        -> getEachFunction(a1, a2, a3, a4)
      [] method = "getEachIFunction"       -> getEachIFunction(a1, a2, a3, a4)
      [] method = "getAllFunction"         -> getAllFunction(a1, a2, a3, a4)
      [] method = "getAnyFunction"         -> getAnyFunction(a1, a2, a3, a4)

----------------------------------------------------------------------------
(* Go maps *)

EmptyMap == <<>>

MapPut(m, k, v) == [x \in (DOMAIN m) \cup {k} |-> IF x = k THEN v ELSE m[x]]

\* v, _ := m[k] of a map[string]bool
Lookup(m, k) == IF k \in DOMAIN m THEN m[k] ELSE FALSE

\* the orders in which one range loop may visit the keys
Orders(keys) ==
    {o \in [1..Cardinality(keys) -> keys] : \A k \in keys : \E i \in DOMAIN o : o[i] = k}

----------------------------------------------------------------------------
(* Type set resolver and operation selector *)

RECURSIVE TypeMapLoop(_, _)
TypeMapLoop(targetParts, m) ==
    IF Len(targetParts) = 0 THEN m
    ELSE LET tParts == Split(Head(targetParts), ":")
             m2 == IF Len(tParts) = 1 THEN MapPut(m, tParts[1], tParts[1])
                   ELSE MapPut(m, tParts[1], tParts[2])
         IN  TypeMapLoop(Tail(targetParts), m2)

getTypeMap(targets) ==
    IF targets = <<>> THEN EmptyMap
    ELSE TypeMapLoop(Split(targets, ","), EmptyMap)

\* as getMethodsMap, a token that names no generator passed over in silence
getMethodsMapLenient(methodsStr) ==
    LET all == [n \in {generators[i].name : i \in 1..Len(generators)} |-> TRUE]
        parts == Split(methodsStr, ",")
    IN  IF methodsStr = <<>>
        THEN [fatal |-> FALSE, token |-> <<>>, result |-> all]
        ELSE [fatal |-> FALSE, token |-> <<>>,
              result |-> [n \in Range(parts) \cap DOMAIN all |-> TRUE]]

\* [fatal, token, result]: log.Fatalf ends the process at the first token that
\* is no generator's name; otherwise result is returned
getMethodsMap(methodsStr) ==
    LET all == [n \in {generators[i].name : i \in 1..Len(generators)} |-> TRUE]
    IN  IF methodsStr = <<>>
        THEN [fatal |-> FALSE, token |-> <<>>, result |-> all]
        ELSE LET validMethods == all
                 parts == Split(methodsStr, ",")
                 bad == {i \in 1..Len(parts) : parts[i] \notin DOMAIN validMethods}
             IN  IF bad = {}
                 THEN [fatal |-> FALSE, token |-> <<>>,
                       result |-> [n \in Range(parts) |-> TRUE]]
                 ELSE [fatal |-> TRUE,
                       token |-> parts[CHOOSE i \in bad : \A j \in bad : i <= j],
                       result |-> EmptyMap]

----------------------------------------------------------------------------
(* Unit expander *)

\* as targetTypeNameOf, with the alias compared where the type name is meant
targetTypeNameOfAlias(typeName, k, v) == IF v = typeName THEN <<>> ELSE v

\* the disambiguating suffix for target k with alias v, in the list of typeName
targetTypeNameOf(typeName, k, v) == IF k = typeName THEN <<>> ELSE v

\* as crossUnits, the list's own type skipped (as getFileNameForTypes skips it)
crossUnitsSkipSelf(gen, typeName, listname, m, order) ==
    LET others == SelectSeq(order, LAMBDA k : k # typeName)
    IN  [i \in 1..Len(others) |->
            CallMethod(gen.method, listname, typeName, others[i], m[others[i]])]

\* the loop over m of a needMapToMap generator; order is the order in which
\* this range loop visits the keys of m
crossUnits(gen, typeName, listname, m, order) ==
    [i \in 1..Len(order) |->
        LET k == order[i]
            v == m[k]
        IN  CallMethod(gen.method, listname, typeName, k, targetTypeNameOf(typeName, k, v))]

\* ord[name] is the order of the range loop run for the generator of that name
generate(typeName, listname, m, selection, ord) ==
    LET selected ==
            GeneratorListFilter(generators,
                [gen \in Range(generators) |-> gen.name \in DOMAIN selection])
        units(gen) ==
            IF gen.needMapToMap
            THEN crossUnits(gen, typeName, listname, m, ord[gen.name])
            ELSE <<CallMethod(gen.method, listname, typeName, <<>>, <<>>)>>
    IN  <<TypeDecl(typeName, listname)>>
            \o Flatten([i \in 1..Len(selected) |-> units(selected[i])])

\* the names of the selected generators that range over the type map
CrossNames(selection) ==
    {generators[i].name : i \in {j \in 1..Len(generators) :
        generators[j].needMapToMap /\ generators[j].name \in DOMAIN selection}}

----------------------------------------------------------------------------
(* main *)

packageName == <<"m", "a", "i", "n">>

\* as Header, needSync of every generator counted, selected or not
HeaderImportUnselected(selection) ==
    LET needImportSync ==
            Len(GeneratorListFilter(generators,
                    [gen \in Range(generators) |-> gen.needSync])) > 0
        importSync == IF needImportSync THEN <<ImportSyncDecl>> ELSE <<>>
    IN  <<PackageClause(packageName)>> \o importSync

\* the text before the first list type: the package clause and importSync
Header(selection) ==
    LET needImportSync ==
            Len(GeneratorListFilter(generators,
                    [gen \in Range(generators) |->
                        Lookup(selection, gen.name) /\ gen.needSync])) > 0
        importSync == IF needImportSync THEN <<ImportSyncDecl>> ELSE <<>>
    IN  <<PackageClause(packageName)>> \o importSync

\* format.Source accepts s: every fragment parses.  With names made of
\* letters the one fragment that does not is a list type without element type
FormatOK(s) == \A i \in 1..Len(s) : s[i].kind = "type" => s[i].elem # <<>>

Exit(code, kind, text) ==
    /\ pc' = "exit"
    /\ exitCode' = code
    /\ diag' = <<kind, text>>

\* no -types: usage and exit status 2
Usage ==
    /\ pc = "start"
    /\ Len(types) = 0
    /\ Exit(2, "usage", <<>>)
    /\ UNCHANGED <<types, methods, testrun, methodsMap, typeMap, pending, src, out>>
    /\ UNCHANGED libVars

\* getMethodsMap, then the header and the type map
Configure ==
    /\ pc = "start"
    /\ Len(types) # 0
    /\ LET r == getMethodsMap(methods)
       IN  IF r.fatal
           THEN /\ Exit(1, "method", r.token)
                /\ UNCHANGED <<methodsMap, typeMap, pending, src>>
           ELSE /\ methodsMap' = r.result
                /\ src' = Header(r.result)
                /\ typeMap' = getTypeMap(types)
                /\ pending' = DOMAIN getTypeMap(types)
                /\ pc' = "loop"
                /\ UNCHANGED <<exitCode, diag>>
    /\ UNCHANGED <<types, methods, testrun, out>>
    /\ UNCHANGED libVars

\* one iteration of the loop over typeMap: generate, then f
GenerateType ==
    /\ pc = "loop"
    /\ \E k1 \in pending :
       \E ord \in [CrossNames(methodsMap) -> Orders(DOMAIN typeMap)] :
          LET v1 == typeMap[k1]
              code == src \o generate(k1, v1 \o ListSuffix, typeMap, methodsMap, ord)
          IN  IF FormatOK(code)
              THEN /\ src' = code
                   /\ pending' = pending \ {k1}
                   /\ UNCHANGED <<pc, exitCode, diag>>
              ELSE /\ Exit(1, "format", <<>>)
                   /\ UNCHANGED <<src, pending>>
    /\ UNCHANGED <<types, methods, testrun, methodsMap, typeMap, out>>
    /\ UNCHANGED libVars

\* -test: the file name and src are displayed
Display ==
    /\ pc = "loop"
    /\ pending = {}
    /\ testrun
    /\ out' = <<"display", src>>
    /\ pc' = "done"
    /\ exitCode' = 0
    /\ UNCHANGED <<types, methods, testrun, methodsMap, typeMap, pending, src, diag>>
    /\ UNCHANGED libVars

\* otherwise src is written to the file, which may fail
WriteFile ==
    /\ pc = "loop"
    /\ pending = {}
    /\ ~testrun
    /\ \E ok \in BOOLEAN :
          IF ok
          THEN /\ out' = <<"file", src>>
               /\ pc' = "done"
               /\ exitCode' = 0
               /\ UNCHANGED diag
          ELSE /\ Exit(1, "write", <<>>)
               /\ UNCHANGED out
    /\ UNCHANGED <<types, methods, testrun, methodsMap, typeMap, pending, src>>
    /\ UNCHANGED libVars

----------------------------------------------------------------------------
(* The generated methods: values and bounds *)

\* longest list given to Take, Drop, PMap and PFilter
MaxListLen == 3

Elems == {1, 2}

\* the zero value of the element type
ZeroElem == 0

Lists(n) == UNION {[1..k -> Elems] : k \in 0..n}

\* the outcome of a call: a returned list, or a run-time panic
Returned(l) == [state |-> "returned", value |-> l]

Panic == [state |-> "panic", value |-> <<>>]

NotCalled == [state |-> "none", value |-> <<>>]

\* the slice expression l[lo:hi] with lo and hi known at run time only; the
\* callers below keep hi within len(l)
Slice(l, lo, hi) ==
    IF lo < 0 \/ hi < lo \/ hi > Len(l) THEN Panic
    ELSE Returned(SubSeq(l, lo + 1, hi))

----------------------------------------------------------------------------
(* Take and Drop *)

\* as Take, the comparison turned around
TakeReversedTest(l, n) == IF n >= Len(l) THEN Slice(l, 0, n) ELSE Returned(l)

Take(l, n) == IF Len(l) >= n THEN Slice(l, 0, n) ELSE Returned(l)

Drop(l, n) == IF Len(l) >= n THEN Slice(l, n, Len(l)) ELSE Returned(<<>>)

TakeCall ==
    /\ tdTake.state = "none"
    /\ tdTake' = Take(tdL, tdN)
    /\ UNCHANGED <<tdL, tdN, tdDrop>>
    /\ UNCHANGED <<genVars, pmVars, pfVars>>

DropCall ==
    /\ tdDrop.state = "none"
    /\ tdDrop' = Drop(tdL, tdN)
    /\ UNCHANGED <<tdL, tdN, tdTake>>
    /\ UNCHANGED <<genVars, pmVars, pfVars>>

----------------------------------------------------------------------------
(* Map and PMap *)

Map(l, f) == [i \in 1..Len(l) |-> f[l[i]]]

NoTask == [pc |-> "none", i |-> 0, t |-> ZeroElem]

\* as WaitGroupDone, wg.Wait() left out
WaitGroupIgnored(wg) == TRUE

\* wg.Wait() returns
WaitGroupDone(wg) == wg = 0

\* wg.Add(1); go func(i, t) {...}(i, t)
PMapSpawn ==
    /\ pmPc = "loop"
    /\ pmI < Len(pmL)
    /\ pmWg' = pmWg + 1
    /\ pmTasks' = [pmTasks EXCEPT ![pmI + 1] = [pc |-> "run", i |-> pmI, t |-> pmL[pmI + 1]]]
    /\ pmI' = pmI + 1
    /\ UNCHANGED <<pmL, pmF, pmL2, pmPc, pmWrites, pmRet>>
    /\ UNCHANGED <<genVars, tdVars, pfVars>>

\* l2[i] = f(t)
PMapTaskWrite(g) ==
    /\ pmTasks[g].pc = "run"
    /\ pmL2' = [pmL2 EXCEPT ![pmTasks[g].i + 1] = pmF[pmTasks[g].t]]
    /\ pmWrites' = pmWrites \cup {<<g, pmTasks[g].i>>}
    /\ pmTasks' = [pmTasks EXCEPT ![g].pc = "wrote"]
    /\ UNCHANGED <<pmL, pmF, pmWg, pmI, pmPc, pmRet>>
    /\ UNCHANGED <<genVars, tdVars, pfVars>>

\* wg.Done()
PMapTaskDone(g) ==
    /\ pmTasks[g].pc = "wrote"
    /\ pmWg' = pmWg - 1
    /\ pmTasks' = [pmTasks EXCEPT ![g].pc = "done"]
    /\ UNCHANGED <<pmL, pmF, pmL2, pmI, pmPc, pmWrites, pmRet>>
    /\ UNCHANGED <<genVars, tdVars, pfVars>>

\* the loop is over: wg.Wait(); return l2
PMapReturn ==
    /\ pmPc = "loop"
    /\ pmI = Len(pmL)
    /\ WaitGroupDone(pmWg)
    /\ pmRet' = pmL2
    /\ pmPc' = "returned"
    /\ UNCHANGED <<pmL, pmF, pmL2, pmWg, pmI, pmTasks, pmWrites>>
    /\ UNCHANGED <<genVars, tdVars, pfVars>>

----------------------------------------------------------------------------
(* Filter and PFilter *)

Filter(l, f) == SelectSeq(l, LAMBDA t : t \in f)

\* as MutexFree, mutex.Lock() left out
MutexIgnored(mutex) == TRUE

\* mutex.Lock() returns
MutexFree(mutex) == mutex = 0

\* wg.Add(1); go func(t) {...}(t)
PFilterSpawn ==
    /\ pfPc = "loop"
    /\ pfI < Len(pfL)
    /\ pfWg' = pfWg + 1
    /\ pfTasks' = [pfTasks EXCEPT ![pfI + 1] = [pc |-> "test", i |-> pfI, t |-> pfL[pfI + 1], tmp |-> <<>>]]
    /\ pfI' = pfI + 1
    /\ UNCHANGED <<pfL, pfF, pfL2, pfMutex, pfPc, pfRet>>
    /\ UNCHANGED <<genVars, tdVars, pmVars>>

\* if f(t)
PFilterTaskTest(g) ==
    /\ pfTasks[g].pc = "test"
    /\ pfTasks' = [pfTasks EXCEPT ![g].pc = IF pfTasks[g].t \in pfF THEN "lock" ELSE "wgdone"]
    /\ UNCHANGED <<pfL, pfF, pfL2, pfMutex, pfWg, pfI, pfPc, pfRet>>
    /\ UNCHANGED <<genVars, tdVars, pmVars>>

\* mutex.Lock()
PFilterTaskLock(g) ==
    /\ pfTasks[g].pc = "lock"
    /\ MutexFree(pfMutex)
    /\ pfMutex' = g
    /\ pfTasks' = [pfTasks EXCEPT ![g].pc = "load"]
    /\ UNCHANGED <<pfL, pfF, pfL2, pfWg, pfI, pfPc, pfRet>>
    /\ UNCHANGED <<genVars, tdVars, pmVars>>

\* append(l2, t): l2 is read into the goroutine's tmp
PFilterTaskLoad(g) ==
    /\ pfTasks[g].pc = "load"
    /\ pfTasks' = [pfTasks EXCEPT ![g].pc = "store", ![g].tmp = pfL2]
    /\ UNCHANGED <<pfL, pfF, pfL2, pfMutex, pfWg, pfI, pfPc, pfRet>>
    /\ UNCHANGED <<genVars, tdVars, pmVars>>

\* l2 = append(l2, t): the list read, with t after it, is stored
PFilterTaskStore(g) ==
    /\ pfTasks[g].pc = "store"
    /\ pfL2' = Append(pfTasks[g].tmp, pfTasks[g].t)
    /\ pfTasks' = [pfTasks EXCEPT ![g].pc = "unlock", ![g].tmp = <<>>]
    /\ UNCHANGED <<pfL, pfF, pfMutex, pfWg, pfI, pfPc, pfRet>>
    /\ UNCHANGED <<genVars, tdVars, pmVars>>

\* mutex.Unlock()
PFilterTaskUnlock(g) ==
    /\ pfTasks[g].pc = "unlock"
    /\ pfMutex' = 0
    /\ pfTasks' = [pfTasks EXCEPT ![g].pc = "wgdone"]
    /\ UNCHANGED <<pfL, pfF, pfL2, pfWg, pfI, pfPc, pfRet>>
    /\ UNCHANGED <<genVars, tdVars, pmVars>>

\* wg.Done()
PFilterTaskDone(g) ==
    /\ pfTasks[g].pc = "wgdone"
    /\ pfWg' = pfWg - 1
    /\ pfTasks' = [pfTasks EXCEPT ![g].pc = "done"]
    /\ UNCHANGED <<pfL, pfF, pfL2, pfMutex, pfI, pfPc, pfRet>>
    /\ UNCHANGED <<genVars, tdVars, pmVars>>

\* the loop is over: wg.Wait(); return l2
PFilterReturn ==
    /\ pfPc = "loop"
    /\ pfI = Len(pfL)
    /\ WaitGroupDone(pfWg)
    /\ pfRet' = pfL2
    /\ pfPc' = "returned"
    /\ UNCHANGED <<pfL, pfF, pfL2, pfMutex, pfWg, pfI, pfTasks>>
    /\ UNCHANGED <<genVars, tdVars, pmVars>>

----------------------------------------------------------------------------
(* The inputs and the specification of one run of the generator *)

TypeLetters == {"a", "b"}

TypeChars == {",", ":"} \cup TypeLetters

\* Every type specification up to MaxTypesLen that names each of its types,
\* and of those that leave a type unnamed (f rejects its list type), the ones
\* of no more types than there are letters
TypeSpecs ==
    {s \in StringsUpTo(TypeChars, MaxTypesLen) :
        LET keys == DOMAIN getTypeMap(s)
        IN  <<>> \in keys => Cardinality(keys) <= Cardinality(TypeLetters)}

\* a generator without flags, one with needSync, one with needMapToMap, a
\* token that names no generator, and the empty token
MethodTokens == {NameMap, NamePFilter, <<"M", "o", "p">>}

MethodSpecs ==
    {Join(ts, <<",">>) : ts \in UNION {[1..k -> MethodTokens] : k \in 0..MaxMethodTokens}}

GenInit ==
    /\ pc = "start"
    /\ types \in TypeSpecs
    /\ methods \in MethodSpecs
    /\ testrun \in BOOLEAN
    /\ methodsMap = EmptyMap
    /\ typeMap = EmptyMap
    /\ pending = {}
    /\ src = <<>>
    /\ exitCode = -1
    /\ diag = <<"none", <<>>>>
    /\ out = <<"none", <<>>>>

\* no run of the generator
GenIdle ==
    /\ pc = "idle"
    /\ types = <<>>
    /\ methods = <<>>
    /\ testrun = FALSE
    /\ methodsMap = EmptyMap
    /\ typeMap = EmptyMap
    /\ pending = {}
    /\ src = <<>>
    /\ exitCode = -1
    /\ diag = <<"none", <<>>>>
    /\ out = <<"none", <<>>>>

TdInit ==
    /\ tdL \in Lists(MaxListLen)
    /\ tdN \in (0 - MaxListLen - 1)..(MaxListLen + 1)
    /\ tdTake = NotCalled
    /\ tdDrop = NotCalled

TdIdle ==
    /\ tdL = <<>>
    /\ tdN = 0
    /\ tdTake = NotCalled
    /\ tdDrop = NotCalled

\* wg := sync.WaitGroup{}; l2 := make(..., len(l))
PmInit ==
    /\ pmL \in Lists(MaxListLen)
    /\ pmF \in [Elems -> Elems]
    /\ pmL2 = [i \in 1..Len(pmL) |-> ZeroElem]
    /\ pmWg = 0
    /\ pmI = 0
    /\ pmPc = "loop"
    /\ pmTasks = [g \in 1..Len(pmL) |-> NoTask]
    /\ pmWrites = {}
    /\ pmRet = <<>>

PmIdle ==
    /\ pmL = <<>>
    /\ pmF = [e \in Elems |-> e]
    /\ pmL2 = <<>>
    /\ pmWg = 0
    /\ pmI = 0
    /\ pmPc = "idle"
    /\ pmTasks = <<>>
    /\ pmWrites = {}
    /\ pmRet = <<>>

\* wg := sync.WaitGroup{}; mutex := sync.Mutex{}; l2 := []T{}
PfInit ==
    /\ pfL \in Lists(MaxListLen)
    /\ pfF \in SUBSET Elems
    /\ pfL2 = <<>>
    /\ pfMutex = 0
    /\ pfWg = 0
    /\ pfI = 0
    /\ pfPc = "loop"
    /\ pfTasks = [g \in 1..Len(pfL) |-> [pc |-> "none", i |-> 0, t |-> ZeroElem, tmp |-> <<>>]]
    /\ pfRet = <<>>

PfIdle ==
    /\ pfL = <<>>
    /\ pfF = {}
    /\ pfL2 = <<>>
    /\ pfMutex = 0
    /\ pfWg = 0
    /\ pfI = 0
    /\ pfPc = "idle"
    /\ pfTasks = <<>>
    /\ pfRet = <<>>

\* one run of the generator
Init == GenInit /\ TdIdle /\ PmIdle /\ PfIdle

Next ==
    \/ Usage
    \/ Configure
    \/ GenerateType
    \/ Display
    \/ WriteFile

Spec == Init /\ [][Next]_vars

\* one call of Take and one of Drop, on the same list with the same n
TakeDropInit == GenIdle /\ TdInit /\ PmIdle /\ PfIdle

TakeDropNext ==
    \/ TakeCall
    \/ DropCall

TakeDropSpec == TakeDropInit /\ [][TakeDropNext]_vars

\* one call of PMap
PMapInit == GenIdle /\ TdIdle /\ PmInit /\ PfIdle

PMapNext ==
    \/ PMapSpawn
    \/ \E g \in DOMAIN pmTasks : PMapTaskWrite(g)
    \/ \E g \in DOMAIN pmTasks : PMapTaskDone(g)
    \/ PMapReturn

PMapSpec == PMapInit /\ [][PMapNext]_vars

\* one call of PFilter
PFilterInit == GenIdle /\ TdIdle /\ PmIdle /\ PfInit

PFilterNext ==
    \/ PFilterSpawn
    \/ \E g \in DOMAIN pfTasks : PFilterTaskTest(g)
    \/ \E g \in DOMAIN pfTasks : PFilterTaskLock(g)
    \/ \E g \in DOMAIN pfTasks : PFilterTaskLoad(g)
    \/ \E g \in DOMAIN pfTasks : PFilterTaskStore(g)
    \/ \E g \in DOMAIN pfTasks : PFilterTaskUnlock(g)
    \/ \E g \in DOMAIN pfTasks : PFilterTaskDone(g)
    \/ PFilterReturn

PFilterSpec == PFilterInit /\ [][PFilterNext]_vars

----------------------------------------------------------------------------
(* Properties of one run of the generator *)

RegistryNames ==
    {NameMap, NamePMap, NameFilter, NamePFilter, NameReduce, NameReduceRight,
     NameTake, NameTakeWhile, NameDrop, NameDropWhile, NameEach, NameEachI,
     NameAll, NameAny}

CrossTypeNames == {NameMap, NamePMap}

NeedSyncNames == {NamePMap, NamePFilter}

\* main has called getMethodsMap
SelectionMade == pc # "start" /\ diag[1] # "usage"

\* main has called generate for every type
PassComplete ==
    \/ pc = "loop" /\ pending = {}
    \/ pc = "done"
    \/ pc = "exit" /\ diag[1] = "write"

TypeFragments == {i \in 1..Len(src) : src[i].kind = "type"}

MethodFragments == {i \in 1..Len(src) : src[i].kind = "method"}

CrossFragments == {i \in MethodFragments : src[i].op \in CrossTypeNames}

SingleFragments == MethodFragments \ CrossFragments

ImportFragments == {i \in 1..Len(src) : src[i].kind = "import"}

\* s with its first letter in upper case
Capitalized(s) == IF s = <<>> THEN <<>> ELSE <<ToUpper(Head(s))>> \o Tail(s)

\* C1: after a generation pass over K types, src holds K list-type
\* declarations, K x (selected single-type operations) single-type methods and
\* K x K x (selected cross-type operations) cross-type methods
UnitCounts ==
    PassComplete =>
        LET K == Cardinality(DOMAIN typeMap)
            nSingle == Cardinality((DOMAIN methodsMap) \ CrossTypeNames)
            nCross == Cardinality((DOMAIN methodsMap) \cap CrossTypeNames)
        IN  /\ Cardinality(TypeFragments) = K
            /\ Cardinality(SingleFragments) = K * nSingle
            /\ Cardinality(CrossFragments) = K * K * nCross

\* two types and every operation of the registry, written out
UnitCountsWitness ==
    /\ pc = "done"
    /\ Cardinality(DOMAIN typeMap) = 2
    /\ DOMAIN methodsMap = RegistryNames
    /\ Cardinality(CrossFragments) = 8
    /\ Cardinality(SingleFragments) = 24

RECURSIVE SourcesFrom(_, _)
SourcesFrom(s, keys) ==
    IF keys = {} THEN {s}
    ELSE UNION {SourcesFrom(
                    s \o generate(k, typeMap[k] \o ListSuffix, typeMap, methodsMap, ord),
                    keys \ {k}) :
                <<k, ord>> \in keys \X [CrossNames(methodsMap) -> Orders(DOMAIN typeMap)]}

\* C3: the text written is the only text a run with these inputs can write
DeterministicOutput ==
    pc = "done" => SourcesFrom(Header(methodsMap), DOMAIN typeMap) = {src}

\* C4: no list type has two methods of one name, and no two types have list
\* types of one name
CollisionFree ==
    pc = "done" =>
        /\ \A i, j \in MethodFragments :
              (src[i].recv = src[j].recv /\ src[i].name = src[j].name) => i = j
        /\ \A i, j \in TypeFragments : src[i].name = src[j].name => i = j

\* C5: once main has selected the operations: no -methods selects the whole
\* registry, tokens that all name generators select exactly those, and a
\* token that names none ends the run with status 1 and that token reported,
\* nothing rendered and nothing written or displayed
OperationSelection ==
    SelectionMade =>
        LET tokens == Range(Split(methods, ","))
        IN  IF methods = <<>>
            THEN DOMAIN methodsMap = RegistryNames /\ diag[1] # "method"
            ELSE IF tokens \subseteq RegistryNames
            THEN DOMAIN methodsMap = tokens /\ diag[1] # "method"
            ELSE /\ pc = "exit"
                 /\ exitCode = 1
                 /\ diag[1] = "method"
                 /\ diag[2] \in tokens \ RegistryNames
                 /\ src = <<>>
                 /\ out[1] = "none"

\* a run ended by the second of two tokens
OperationSelectionWitness ==
    /\ SelectionMade
    /\ pc = "exit"
    /\ diag = <<"method", <<"M", "o", "p">>>>
    /\ methods = NameMap \o <<",">> \o <<"M", "o", "p">>

\* C6: from the header on, src imports "sync" once if PMap or PFilter is
\* selected, and not at all otherwise
ImportSyncIff ==
    src # <<>> =>
        /\ Cardinality(ImportFragments) =
              IF (DOMAIN methodsMap) \cap NeedSyncNames # {} THEN 1 ELSE 0
        /\ ImportFragments \subseteq {2}

\* two types with PFilter selected, written out with the one import
ImportSyncIffWitness ==
    /\ pc = "done"
    /\ Cardinality(DOMAIN typeMap) = 2
    /\ NamePFilter \in DOMAIN methodsMap
    /\ ImportFragments = {2}

\* C10: the return type of a cross-type method to T is T's list type, the
\* alias of T followed by "List", and the text declares it as a list of T
ReturnTypeDeclared ==
    pc = "done" =>
        \A i \in CrossFragments :
            /\ src[i].ret = typeMap[src[i].target] \o ListSuffix
            /\ \E j \in TypeFragments :
                  src[j].name = src[i].ret /\ src[j].elem = src[i].target

----------------------------------------------------------------------------
(* Properties of the generated methods *)

\* C7 as stated, for every integer n: Take returns the whole list and Drop
\* the empty list when n >= L, and Take returns the first n elements and Drop
\* the other L - n when n < L
TakeDropEveryN ==
    LET L == Len(tdL)
    IN  /\ tdTake.state # "none" =>
              tdTake = Returned(IF tdN >= L THEN tdL ELSE SubSeq(tdL, 1, tdN))
        /\ tdDrop.state # "none" =>
              tdDrop = Returned(IF tdN >= L THEN <<>> ELSE SubSeq(tdL, tdN + 1, L))

\* C7 for n >= 0: Take returns the whole list and Drop the empty list when
\* n >= L, and Take returns the first n elements and Drop the other L - n
\* when n < L
TakeDropNonNegativeN ==
    tdN >= 0 =>
        LET L == Len(tdL)
        IN  /\ tdTake.state # "none" =>
                  /\ tdTake = Returned(IF tdN >= L THEN tdL ELSE SubSeq(tdL, 1, tdN))
                  /\ Len(tdTake.value) = IF tdN >= L THEN L ELSE tdN
            /\ tdDrop.state # "none" =>
                  /\ tdDrop = Returned(IF tdN >= L THEN <<>> ELSE SubSeq(tdL, tdN + 1, L))
                  /\ Len(tdDrop.value) = IF tdN >= L THEN 0 ELSE L - tdN

\* both called with 0 < n < L
TakeDropWitness ==
    /\ 0 < tdN
    /\ tdN < Len(tdL)
    /\ tdTake.state = "returned"
    /\ tdDrop.state = "returned"
    /\ tdTake.value \o tdDrop.value = tdL

\* C8: one goroutine per element visited, each with its own index and
\* element; no index of l2 written by two goroutines; and PMap returns only
\* when every goroutine is done, with f of element i at index i
PMapCorrect ==
    /\ \A g \in DOMAIN pmTasks :
          IF g <= pmI
          THEN pmTasks[g].pc # "none" /\ pmTasks[g].i = g - 1 /\ pmTasks[g].t = pmL[g]
          ELSE pmTasks[g].pc = "none"
    /\ \A w1, w2 \in pmWrites : w1[2] = w2[2] => w1[1] = w2[1]
    /\ pmPc = "returned" =>
          /\ pmI = Len(pmL)
          /\ \A g \in DOMAIN pmTasks : pmTasks[g].pc = "done"
          /\ Len(pmRet) = Len(pmL)
          /\ \A i \in 1..Len(pmL) : pmRet[i] = pmF[pmL[i]]
          /\ pmRet = Map(pmL, pmF)

\* a list of two or more elements mapped to another list
PMapWitness ==
    /\ pmPc = "returned"
    /\ Len(pmL) >= 2
    /\ Cardinality(pmWrites) = Len(pmL)
    /\ pmRet # pmL

InAppend(g) == pfTasks[g].pc \in {"load", "store"}

Count(l, e) == Cardinality({i \in 1..Len(l) : l[i] = e})

\* C9: at most one goroutine is in the append, and it holds the mutex; and
\* PFilter returns only when every goroutine is done, with the elements f
\* holds for, each as often as in l
PFilterCorrect ==
    /\ \A g, h \in DOMAIN pfTasks : (InAppend(g) /\ InAppend(h)) => g = h
    /\ \A g \in DOMAIN pfTasks : InAppend(g) => pfMutex = g
    /\ pfPc = "returned" =>
          /\ \A g \in DOMAIN pfTasks : pfTasks[g].pc = "done"
          /\ Len(pfRet) = Len(Filter(pfL, pfF))
          /\ \A e \in Elems : Count(pfRet, e) = Count(Filter(pfL, pfF), e)

\* two elements kept, returned in the other order
PFilterWitness ==
    /\ pfPc = "returned"
    /\ Len(pfRet) = 2
    /\ pfRet # Filter(pfL, pfF)

====
